---- MODULE Spec2Model ----
(***************************************************************************)
(* goldmark-meta: a block parser that captures a YAML front-matter block   *)
(* at line 0 of a document, stores the deserialized result in the parse    *)
(* context, and an optional AST transformer that renders it as a table.    *)
(*                                                                         *)
(* Text is a sequence of one-character strings.  A source is a sequence    *)
(* of lines, every line ending in "\n".  The goldmark block-parsing loop   *)
(* and yaml.Unmarshal are collaborators of meta.go; they are modelled as   *)
(* far as meta.go relies on them (Trigger, Open/Continue/Close protocol,   *)
(* the two Unmarshal calls of Close).                                      *)
(***************************************************************************)
EXTENDS Integers, Sequences, FiniteSets, TLC

\* Longest source, in lines, that the model parses.
MaxLines == 3

\* The most children of a node nested in the stored node tree.
MaxContent == 4

\* Absent values (Go nil) are the empty tuple, present values a 1-tuple.
Nil == <<>>

Some(v) == <<v>>

----------------------------------------------------------------------------
(* Lines of the modelled sources *)

DashLine == <<"-", "-", "-", "\n">>

PaddedDashLine == <<" ", "-", "\n">>

BlankLine == <<" ", "\n">>

PairAX == <<"a", ":", " ", "x", "\n">>

PairBY == <<"b", ":", " ", "y", "\n">>

ItemX == <<"-", " ", "x", "\n">>

BrokenLine == <<":", " ", "{", "\n">>

Lines == {DashLine, PaddedDashLine, BlankLine, PairAX, PairBY, ItemX, BrokenLine}

Sources == UNION {[1..n -> Lines] : n \in 0..MaxLines}

----------------------------------------------------------------------------
(* goldmark util helpers used by meta.go *)

IsSpace(c) == c \in {" ", "\n"}

FirstNonSpace(s) ==
    IF \E i \in 1..Len(s) : ~IsSpace(s[i])
    THEN CHOOSE i \in 1..Len(s) :
            ~IsSpace(s[i]) /\ \A j \in 1..(i - 1) : IsSpace(s[j])
    ELSE Len(s) + 1

LastNonSpace(s) ==
    IF \E i \in 1..Len(s) : ~IsSpace(s[i])
    THEN CHOOSE i \in 1..Len(s) :
            ~IsSpace(s[i]) /\ \A j \in (i + 1)..Len(s) : IsSpace(s[j])
    ELSE 0

TrimLeftSpace(s) == SubSeq(s, FirstNonSpace(s), Len(s))

TrimRightSpace(s) == SubSeq(s, 1, LastNonSpace(s))

IsBlank(s) == \A i \in 1..Len(s) : IsSpace(s[i])

----------------------------------------------------------------------------
(* meta.go: the boundary scanner *)

isSeparatorFirstByte(line) ==
    LET t == TrimRightSpace(TrimLeftSpace(line))
    IN  Len(t) > 0 => t[1] = "-"

isSeparator(line) ==
    LET t == TrimRightSpace(TrimLeftSpace(line))
    IN  \A i \in 1..Len(t) : t[i] = "-"

Trigger == {"-"}

CanAcceptIndentedLine == FALSE

\* The block a successful Open returns (gast.NewTextBlock()).
TextBlock == "TextBlock"

OpenAnyLine(linenum, line) ==
    IF isSeparator(line) THEN Some(TextBlock) ELSE Nil

Open(linenum, line) ==
    IF linenum # 0 THEN Nil
    ELSE IF isSeparator(line) THEN Some(TextBlock)
    ELSE Nil

ContinueBlankCloses(line) ==
    IF isSeparator(line) THEN "Close" ELSE "Continue"

Continue(line) ==
    IF isSeparator(line) /\ ~IsBlank(line) THEN "Close" ELSE "Continue"

----------------------------------------------------------------------------
(* yaml.Unmarshal, as Close calls it: once into a map[string]interface{},  *)
(* once into a *yaml.Node.  The modelled YAML subset: blank lines, block   *)
(* mapping entries "k: v", block sequence entries "- v"; every other line  *)
(* and every mix of the two entry shapes is a syntax error.                *)

Letters == {"a", "b", "x", "y"}

NewlineAt(s) ==
    IF \E i \in 1..Len(s) : s[i] = "\n"
    THEN CHOOSE i \in 1..Len(s) :
            s[i] = "\n" /\ \A j \in 1..(i - 1) : s[j] # "\n"
    ELSE Len(s) + 1

RECURSIVE SplitLines(_)
SplitLines(s) ==
    IF s = <<>> THEN <<>>
    ELSE <<SubSeq(s, 1, NewlineAt(s) - 1)>>
            \o SplitLines(SubSeq(s, NewlineAt(s) + 1, Len(s)))

IsPairLine(l) ==
    /\ Len(l) = 4
    /\ l[1] \in Letters
    /\ l[2] = ":"
    /\ l[3] = " "
    /\ l[4] \in Letters

IsItemLine(l) ==
    /\ Len(l) = 3
    /\ l[1] = "-"
    /\ l[2] = " "
    /\ l[3] \in Letters

YamlShape(l) ==
    IF IsPairLine(l) THEN [shape |-> "pair", key |-> <<l[1]>>, val |-> <<l[4]>>]
    ELSE IF IsItemLine(l) THEN [shape |-> "item", key |-> <<>>, val |-> <<l[3]>>]
    ELSE [shape |-> "bad", key |-> <<>>, val |-> <<>>]

NotBlank(l) == ~IsBlank(l)

YamlEntries(raw) ==
    LET ls == SelectSeq(SplitLines(raw), NotBlank)
    IN  [i \in 1..Len(ls) |-> YamlShape(ls[i])]

YamlWellFormed(raw) ==
    LET es == YamlEntries(raw)
    IN  \/ \A i \in 1..Len(es) : es[i].shape = "pair"
        \/ \A i \in 1..Len(es) : es[i].shape = "item"

SyntaxError == "yaml: did not find expected key"

TypeError == "yaml: unmarshal errors"

ScalarNode(v) == [Kind |-> "Scalar", Value |-> v, Content |-> <<>>]

\* The zero value &yaml.Node{}, which Unmarshal leaves untouched on empty input.
ZeroNode == [Kind |-> "Zero", Value |-> <<>>, Content |-> <<>>]

DocumentNode(root) == [Kind |-> "Document", Value |-> <<>>, Content |-> <<root>>]

MappingNode(es) ==
    [Kind |-> "Mapping", Value |-> <<>>,
     Content |-> [i \in 1..(2 * Len(es)) |->
                    IF i % 2 = 1 THEN ScalarNode(es[(i + 1) \div 2].key)
                    ELSE ScalarNode(es[i \div 2].val)]]

SequenceNode(es) ==
    [Kind |-> "Sequence", Value |-> <<>>,
     Content |-> [i \in 1..Len(es) |-> ScalarNode(es[i].val)]]

\* yaml.Unmarshal(buf.Bytes(), metaItems): <<error, node>>
UnmarshalNode(raw) ==
    LET es == YamlEntries(raw)
    IN  IF ~YamlWellFormed(raw) THEN [err |-> Some(SyntaxError), val |-> Nil]
        ELSE IF Len(es) = 0 THEN [err |-> Nil, val |-> Some(ZeroNode)]
        ELSE IF es[1].shape = "pair"
             THEN [err |-> Nil, val |-> Some(DocumentNode(MappingNode(es)))]
        ELSE [err |-> Nil, val |-> Some(DocumentNode(SequenceNode(es)))]

\* yaml.Unmarshal(buf.Bytes(), &meta): <<error, map>>; a map is a set of
\* <<key, value>> pairs.  A top-level sequence and a duplicated key are
\* errors of this call only.
UnmarshalMap(raw) ==
    LET es == YamlEntries(raw)
    IN  IF ~YamlWellFormed(raw) THEN [err |-> Some(SyntaxError), val |-> Nil]
        ELSE IF Len(es) = 0 THEN [err |-> Nil, val |-> Some({})]
        ELSE IF es[1].shape = "item" THEN [err |-> Some(TypeError), val |-> Nil]
        ELSE IF \E i, j \in 1..Len(es) : i # j /\ es[i].key = es[j].key
             THEN [err |-> Some(TypeError), val |-> Nil]
        ELSE [err |-> Nil,
              val |-> Some({<<es[i].key, es[i].val>> : i \in 1..Len(es)})]

----------------------------------------------------------------------------
(* meta.go: Close, the metadata store and its accessors *)

\* The bytes Close writes to buf: the segments of node.Lines() in order.
\* A segment is the index of a source line.
RECURSIVE Buffer(_, _)
Buffer(lines, source) ==
    IF lines = <<>> THEN <<>>
    ELSE source[Head(lines)] \o Buffer(Tail(lines), source)

NewDataLastError(raw, node) ==
    LET m == UnmarshalMap(raw)
        n == UnmarshalNode(raw)
    IN  [Map   |-> IF m.err # Nil THEN Nil ELSE m.val,
         Items |-> IF n.err # Nil THEN Nil ELSE n.val,
         Error |-> n.err,
         Node  |-> node]

NewDataNilMapOnEmpty(raw, node) ==
    LET m == UnmarshalMap(raw)
        n == UnmarshalNode(raw)
    IN  [Map   |-> IF m.err # Nil \/ m.val = Some({}) THEN Nil ELSE m.val,
         Items |-> IF n.err # Nil THEN Nil ELSE n.val,
         Error |-> IF n.err # Nil THEN n.err ELSE m.err,
         Node  |-> node]

\* The data Close builds from the two Unmarshal calls.
NewData(raw, node) ==
    LET m == UnmarshalMap(raw)
        n == UnmarshalNode(raw)
    IN  [Map   |-> IF m.err # Nil THEN Nil ELSE m.val,
         Items |-> IF n.err # Nil THEN Nil ELSE n.val,
         Error |-> IF n.err # Nil THEN n.err ELSE m.err,
         Node  |-> node]

RemovesAlways(d) == TRUE

\* Close removes the node from its parent only without an error.
Removes(d) == d.Error = Nil

\* A parser.Context holds Nil or Some(data) under contextKey.
Get(ctx) == IF ctx = Nil THEN Nil ELSE ctx[1].Map

TryGet(ctx) ==
    IF ctx = Nil THEN <<Nil, Nil>>
    ELSE IF ctx[1].Error # Nil THEN <<Nil, ctx[1].Error>>
    ELSE <<ctx[1].Map, Nil>>

GetItems(ctx) == IF ctx = Nil THEN Nil ELSE ctx[1].Items

TryGetItemsUnchecked(ctx) ==
    IF ctx = Nil THEN <<Nil, Nil>>
    ELSE <<ctx[1].Items, ctx[1].Error>>

TryGetItems(ctx) ==
    IF ctx = Nil THEN <<Nil, Nil>>
    ELSE IF ctx[1].Error # Nil THEN <<Nil, ctx[1].Error>>
    ELSE <<ctx[1].Items, Nil>>

----------------------------------------------------------------------------
(* meta.go: valueNodeToString *)

\* The characters of the model in byte order; Code is a character's rank.
Ascii ==
    <<"\n", " ", "'", "-", "0", "1", "2", "4", "6", "8", ":", "<", ">", "[",
      "]", "a", "b", "d", "e", "g", "i", "k", "l", "m", "n", "o", "p", "r",
      "s", "t", "u", "x", "y", "{">>

Code(c) == CHOOSE i \in 1..Len(Ascii) : Ascii[i] = c

\* Go's string order: bytewise lexicographic.
StrLess(a, b) ==
    \E i \in 1..(Len(a) + 1) :
        /\ i <= Len(b)
        /\ \A j \in 1..(i - 1) : a[j] = b[j]
        /\ (i = Len(a) + 1 \/ Code(a[i]) < Code(b[i]))

RECURSIVE SortKeysDescending(_)
SortKeysDescending(S) ==
    IF S = {} THEN <<>>
    ELSE LET m == CHOOSE k \in S : \A o \in S : o = k \/ StrLess(o, k)
         IN  <<m>> \o SortKeysDescending(S \ {m})

\* fmt prints a map with its keys sorted (Go 1.12 and later).
RECURSIVE SortKeys(_)
SortKeys(S) ==
    IF S = {} THEN <<>>
    ELSE LET m == CHOOSE k \in S : \A o \in S : o = k \/ StrLess(k, o)
         IN  <<m>> \o SortKeys(S \ {m})

RECURSIVE JoinSpaceReversed(_)
JoinSpaceReversed(ss) ==
    IF ss = <<>> THEN <<>>
    ELSE IF Len(ss) = 1 THEN ss[1]
    ELSE JoinSpaceReversed(Tail(ss)) \o <<" ">> \o ss[1]

\* fmt separates the elements of a slice or map by single spaces.
RECURSIVE JoinSpace(_)
JoinSpace(ss) ==
    IF ss = <<>> THEN <<>>
    ELSE IF Len(ss) = 1 THEN ss[1]
    ELSE ss[1] \o <<" ">> \o JoinSpace(Tail(ss))

BrokenMapping == <<"<", "b", "r", "o", "k", "e", "n", " ", "m", "a", "p", "p", "i", "n", "g", " ", "n", "o", "d", "e", ">">>

\* yaml.Kind as %v prints it.
KindDigits(kind) ==
    CASE kind = "Document" -> <<"1">>
      [] kind = "Sequence" -> <<"2">>
      [] kind = "Mapping"  -> <<"4">>
      [] kind = "Scalar"   -> <<"8">>
      [] kind = "Alias"    -> <<"1", "6">>
      [] OTHER             -> <<"0">>

Unsupported(kind) == <<"<", "d", "o", " ", "n", "o", "t", " ", "s", "u", "p", "p", "o", "r", "t", " ", "y", "a", "m", "l", " ", "n", "o", "d", "e", " ", "k", "i", "n", "d", " ", "'">> \o KindDigits(kind) \o <<"'", ">">>

RECURSIVE valueNodeToString(_)
valueNodeToString(node) ==
    CASE node.Kind = "Sequence" ->
            <<"[">> \o JoinSpace([i \in 1..Len(node.Content) |->
                                    valueNodeToString(node.Content[i])])
                    \o <<"]">>
      [] node.Kind = "Mapping" ->
            IF Len(node.Content) % 2 # 0 THEN BrokenMapping
            ELSE LET n    == Len(node.Content) \div 2
                     K(i) == valueNodeToString(node.Content[2 * i - 1])
                     V(i) == valueNodeToString(node.Content[2 * i])
                     \* the loop runs from the last pair to the first, so
                     \* the first declaration of a key is the one that stays
                     val(k) == V(CHOOSE i \in 1..n :
                                    K(i) = k /\ \A j \in 1..(i - 1) : K(j) # k)
                     keys == SortKeys({K(i) : i \in 1..n})
                 IN  <<"m", "a", "p", "[">>
                        \o JoinSpace([i \in 1..Len(keys) |->
                                        keys[i] \o <<":">> \o val(keys[i])])
                        \o <<"]">>
      [] node.Kind = "Scalar" -> node.Value
      [] OTHER -> Unsupported(node.Kind)

----------------------------------------------------------------------------
(* meta.go: the AST transformer *)

TextBlockNode == [type |-> TextBlock]

ErrorMarker(e) == [type |-> "String", code |-> TRUE, value |-> "<!-- " \o e \o " -->"]

\* The table Transform builds from a mapping root.
NewTable(root) ==
    LET n == Len(root.Content) \div 2
    IN  [type       |-> "Table",
         alignments |-> IF Len(root.Content) % 2 = 1 THEN 1 ELSE 0,
         header     |-> [i \in 1..n |-> valueNodeToString(root.Content[2 * i - 1])],
         body       |-> [i \in 1..n |-> valueNodeToString(root.Content[2 * i])]]

Unchanged(doc, kids) == [doc |-> doc, kids |-> kids, fault |-> FALSE]

Fault(doc, kids) == [doc |-> doc, kids |-> kids, fault |-> TRUE]

\* What Transform does with a stored node tree: meta.go lines 182-218.
Render(doc, kids, ctx) ==
    LET meta == GetItems(ctx)
    IN  IF meta = Nil THEN Unchanged(doc, kids)
        ELSE IF meta[1].Kind = "Document" /\ meta[1].Content = <<>>
             THEN Fault(doc, kids)
        ELSE LET root == IF meta[1].Kind = "Document"
                         THEN meta[1].Content[1] ELSE meta[1]
             IN  IF root.Kind # "Mapping" THEN Unchanged(doc, kids)
                 ELSE IF Len(root.Content) % 2 = 1 THEN Fault(doc, kids)
                 ELSE [doc |-> <<NewTable(root)>> \o doc, kids |-> kids,
                       fault |-> FALSE]

TransformNoReturn(doc, kids, ctx) ==
    IF ctx = Nil THEN Unchanged(doc, kids)
    ELSE IF ctx[1].Error # Nil
         THEN Render(doc, Append(kids, ErrorMarker(ctx[1].Error[1])), ctx)
    ELSE Render(doc, kids, ctx)

\* Transform on the document's children, the anchor's children and the
\* context: the new children, and whether the call faulted.
Transform(doc, kids, ctx) ==
    IF ctx = Nil THEN Unchanged(doc, kids)
    ELSE IF ctx[1].Error # Nil
         THEN [doc |-> doc, kids |-> Append(kids, ErrorMarker(ctx[1].Error[1])),
               fault |-> FALSE]
    ELSE Render(doc, kids, ctx)

----------------------------------------------------------------------------
(* meta.go: the extension and its option *)

\* var Meta = &meta{}
Meta == [Table |-> FALSE]

WithTable == "WithTable"

\* New(opts...): a zero meta with every option applied.
New(opts) == [Table |-> \E i \in 1..Len(opts) : opts[i] = WithTable]

\* The extensions a goldmark.Markdown is built with.
Extensions == {Meta, New(<<>>), New(<<WithTable>>)}

ExtendAlwaysRegisters(e) == TRUE

\* Extend adds defaultASTTransformer to the parser only with e.Table.
TransformerRegistered(e) == e.Table

----------------------------------------------------------------------------
(* One parse session: goldmark's block loop drives the parser over the     *)
(* source, then runs the registered AST transformers.                      *)

VARIABLES
    source,       \* the document, a sequence of lines
    table,        \* meta.Table: whether Extend registered the transformer
    phase,        \* "idle", "blocks", "transform", "done" or "panic"
    line,         \* the reader's line number, from 0
    block,        \* the metadata block: "none", "open", "closing", "closed"
    doc,          \* the children of the document root
    anchorLines,  \* node.Lines() of the metadata block: source line indices
    anchorKids,   \* the children of the metadata block
    slot,         \* pc.Get(contextKey): Nil or Some(data)
    rawText,      \* the bytes the last Close handed to yaml.Unmarshal
    closeCalls,   \* calls of Close
    setCalls,     \* calls of pc.Set(contextKey, ...)
    lastOpen,     \* the last call of Open: its line number, line and result
    acc,          \* what the accessors returned when last called
    parked        \* the session that is not running: its reader, tree and context

vars == <<source, table, phase, line, block, doc, anchorLines, anchorKids,
          slot, rawText, closeCalls, setCalls, lastOpen, acc, parked>>

\* A session before Convert: a fresh parser.Context, nothing read or built.
IdleSession ==
    [source |-> <<>>, phase |-> "idle", line |-> 0, block |-> "none",
     doc |-> <<>>, anchorLines |-> <<>>, anchorKids |-> <<>>, slot |-> Nil,
     rawText |-> Nil, closeCalls |-> 0, setCalls |-> 0, lastOpen |-> Nil,
     acc |-> Nil]

\* The state after goldmark.New(goldmark.WithExtensions(e)): Extend has
\* registered the block parser and, with e.Table, the transformer.
Init ==
    /\ source = <<>>
    /\ table \in {e.Table : e \in Extensions}
    /\ phase = "idle"
    /\ line = 0
    /\ block = "none"
    /\ doc = <<>>
    /\ anchorLines = <<>>
    /\ anchorKids = <<>>
    /\ slot = Nil
    /\ rawText = Nil
    /\ closeCalls = 0
    /\ setCalls = 0
    /\ lastOpen = Nil
    /\ acc = Nil
    /\ parked = IdleSession

\* markdown.Convert(source, ...) with a fresh parser.Context.
Convert ==
    /\ phase = "idle"
    /\ \E src \in Sources : source' = src
    /\ phase' = "blocks"
    /\ UNCHANGED <<table, line, block, doc, anchorLines, anchorKids, slot,
                   rawText, closeCalls, setCalls, lastOpen, acc>>
    /\ UNCHANGED parked

\* The line the reader peeks.
Peek == source[line + 1]

NoOpenBlock == phase = "blocks" /\ block \in {"none", "closed"}

\* The block loop offers a line to the parser when the first character
\* after the indentation is its trigger and the indentation is acceptable.
Offered(l) ==
    /\ l[FirstNonSpace(l)] \in Trigger
    /\ (FirstNonSpace(l) - 1 <= 3 \/ CanAcceptIndentedLine)

OtherNode(n) == [type |-> "Other", line |-> n]

IsAnchor(n) == n.type = TextBlock

NotAnchor(n) == ~IsAnchor(n)

\* reader.SkipBlankLines() between blocks
SkipBlankLine ==
    /\ NoOpenBlock
    /\ line < Len(source)
    /\ IsBlank(Peek)
    /\ line' = line + 1
    /\ UNCHANGED <<source, table, phase, block, doc, anchorLines, anchorKids,
                   slot, rawText, closeCalls, setCalls, lastOpen, acc>>
    /\ UNCHANGED parked

\* The loop calls Open; a returned node becomes the last child of the parent.
OpenBlock ==
    /\ NoOpenBlock
    /\ line < Len(source)
    /\ ~IsBlank(Peek)
    /\ Offered(Peek)
    /\ \E node \in {Open(line, Peek)} :
           /\ lastOpen' = Some([linenum |-> line, line |-> Peek, node |-> node])
           /\ IF node # Nil
              THEN /\ doc' = Append(doc, TextBlockNode)
                   /\ block' = "open"
                   /\ anchorLines' = <<>>
                   /\ anchorKids' = <<>>
              ELSE /\ doc' = Append(doc, OtherNode(line))
                   /\ UNCHANGED <<block, anchorLines, anchorKids>>
    /\ line' = line + 1
    /\ UNCHANGED <<source, table, phase, slot, rawText, closeCalls, setCalls, acc>>
    /\ UNCHANGED parked

\* A line that does not start with the trigger goes to the other parsers.
OtherBlock ==
    /\ NoOpenBlock
    /\ line < Len(source)
    /\ ~IsBlank(Peek)
    /\ ~Offered(Peek)
    /\ doc' = Append(doc, OtherNode(line))
    /\ line' = line + 1
    /\ UNCHANGED <<source, table, phase, block, anchorLines, anchorKids, slot,
                   rawText, closeCalls, setCalls, lastOpen, acc>>
    /\ UNCHANGED parked

\* The loop calls Continue on every line while the block is open.
ContinueBlock ==
    /\ phase = "blocks"
    /\ block = "open"
    /\ line < Len(source)
    /\ IF Continue(Peek) = "Close"
       THEN /\ block' = "closing"
            /\ UNCHANGED anchorLines
       ELSE /\ anchorLines' = Append(anchorLines, line + 1)
            /\ UNCHANGED block
    /\ line' = line + 1
    /\ UNCHANGED <<source, table, phase, doc, anchorKids, slot, rawText,
                   closeCalls, setCalls, lastOpen, acc>>
    /\ UNCHANGED parked

\* The loop calls Close after Continue returned Close, or at the end of
\* the input with the block still open.
CloseBlock ==
    /\ phase = "blocks"
    /\ block = "closing" \/ (block = "open" /\ line = Len(source))
    /\ \E raw \in {Buffer(anchorLines, source)} :
          \E d \in {NewData(raw, TextBlock)} :
             /\ rawText' = Some(raw)
             /\ slot' = Some(d)
             /\ doc' = IF Removes(d) THEN SelectSeq(doc, NotAnchor) ELSE doc
    /\ setCalls' = setCalls + 1
    /\ closeCalls' = closeCalls + 1
    /\ block' = "closed"
    /\ UNCHANGED <<source, table, phase, line, anchorLines, anchorKids,
                   lastOpen, acc>>
    /\ UNCHANGED parked

EndOfBlocks ==
    /\ NoOpenBlock
    /\ line = Len(source)
    /\ phase' = "transform"
    /\ UNCHANGED <<source, table, line, block, doc, anchorLines, anchorKids,
                   slot, rawText, closeCalls, setCalls, lastOpen, acc>>
    /\ UNCHANGED parked

\* Extend registered defaultASTTransformer: the parser runs it once.
RunTransform ==
    /\ phase = "transform"
    /\ TransformerRegistered([Table |-> table])
    /\ \E r \in {Transform(doc, anchorKids, slot)} :
          /\ doc' = r.doc
          /\ anchorKids' = r.kids
          /\ phase' = IF r.fault THEN "panic" ELSE "done"
    /\ UNCHANGED <<source, table, line, block, anchorLines, slot, rawText,
                   closeCalls, setCalls, lastOpen, acc>>
    /\ UNCHANGED parked

\* Without WithTable no transformer of this extension is registered.
NoTransform ==
    /\ phase = "transform"
    /\ ~TransformerRegistered([Table |-> table])
    /\ phase' = "done"
    /\ UNCHANGED <<source, table, line, block, doc, anchorLines, anchorKids,
                   slot, rawText, closeCalls, setCalls, lastOpen, acc>>
    /\ UNCHANGED parked

\* A consumer calls the four accessors on the session's context.
Access ==
    /\ phase \notin {"idle", "panic"}
    /\ acc' = Some([Get         |-> Get(slot),
                    TryGet      |-> TryGet(slot),
                    GetItems    |-> GetItems(slot),
                    TryGetItems |-> TryGetItems(slot)])
    /\ acc' # acc
    /\ UNCHANGED <<source, table, phase, line, block, doc, anchorLines,
                   anchorKids, slot, rawText, closeCalls, setCalls, lastOpen>>
    /\ UNCHANGED parked

Next ==
    \/ Convert
    \/ SkipBlankLine
    \/ OpenBlock
    \/ OtherBlock
    \/ ContinueBlock
    \/ CloseBlock
    \/ EndOfBlocks
    \/ RunTransform
    \/ NoTransform
    \/ Access

Spec == Init /\ [][Next]_vars

----------------------------------------------------------------------------
(* Transform and valueNodeToString on the node trees a context can hold:   *)
(* the stored tree is drawn from a bounded set of yaml.Node values.        *)

AliasNode == [Kind |-> "Alias", Value |-> <<>>, Content |-> <<>>]

Atoms == {ScalarNode(<<"a">>), ScalarNode(<<"b">>)}

\* The children of a nested node: scalars and a nested sequence.
Elements ==
    Atoms \cup {[Kind |-> "Sequence", Value |-> <<>>,
                 Content |-> <<ScalarNode(<<"a">>)>>]}

Contents == UNION {[1..n -> Elements] : n \in 0..MaxContent}

\* The value nodes valueNodeToString is applied to: every kind of its switch,
\* mappings of an odd number of children included.
ValueNodes ==
    Atoms \cup {AliasNode, ZeroNode}
          \cup {[Kind |-> k, Value |-> <<>>, Content |-> c] :
                    k \in {"Sequence", "Mapping"}, c \in Contents}

\* The roots Transform looks at: a mapping of one key, a mapping with a
\* key and no value, and a value that is no mapping.
Roots ==
    {[Kind |-> "Mapping", Value |-> <<>>,
      Content |-> <<ScalarNode(<<"a">>), v>>] : v \in ValueNodes}
    \cup {[Kind |-> "Mapping", Value |-> <<>>,
           Content |-> <<ScalarNode(<<"a">>)>>]}
    \cup {[Kind |-> "Sequence", Value |-> <<>>,
           Content |-> <<ScalarNode(<<"a">>)>>]}

NodeTrees ==
    Roots \cup {DocumentNode(r) : r \in Roots}
          \cup {[Kind |-> "Document", Value |-> <<>>, Content |-> <<>>]}

\* The state in which the parser runs the transformer, after a block was
\* closed without error: the data holds a node tree; Transform reads its
\* Error, Items and Node only.
NodeInit ==
    /\ source = <<>>
    /\ table = New(<<WithTable>>).Table
    /\ phase = "transform"
    /\ line = 0
    /\ block = "closed"
    /\ doc = <<>>
    /\ anchorLines = <<>>
    /\ anchorKids = <<>>
    /\ slot \in {Some([Map |-> Nil, Items |-> Some(t), Error |-> Nil,
                       Node |-> TextBlock]) : t \in NodeTrees}
    /\ rawText = Nil
    /\ closeCalls = 1
    /\ setCalls = 1
    /\ lastOpen = Nil
    /\ acc = Nil
    /\ parked = IdleSession

NodeNext == RunTransform

NodeSpec == NodeInit /\ [][NodeNext]_vars

----------------------------------------------------------------------------
(* Two sessions of one goldmark.Markdown: the same defaultMetaParser,      *)
(* defaultASTTransformer and contextKey, a parser.Context, a reader and a  *)
(* node tree of its own for each document. The scheduler may switch        *)
(* between the two sessions before any step.                               *)

SessionSources ==
    {<<DashLine, PairAX, DashLine, BlankLine>>,
     <<DashLine, ItemX, DashLine>>,
     <<PairAX>>}

\* What the running session owns.
Running ==
    [source |-> source, phase |-> phase, line |-> line, block |-> block,
     doc |-> doc, anchorLines |-> anchorLines, anchorKids |-> anchorKids,
     slot |-> slot, rawText |-> rawText, closeCalls |-> closeCalls,
     setCalls |-> setCalls, lastOpen |-> lastOpen, acc |-> acc]

StoredGlobally(s) == slot

\* pc.Get(contextKey) and pc.Set(contextKey, d) go to the context of the
\* session they are called with: neither struct has a field, and
\* contextKey is assigned once, at package initialisation.
Stored(s) == s.slot

\* markdown.Convert(source, ...) of a session, with a context of its own.
ConvertSession ==
    /\ phase = "idle"
    /\ \E src \in SessionSources : source' = src
    /\ phase' = "blocks"
    /\ UNCHANGED <<table, line, block, doc, anchorLines, anchorKids, slot,
                   rawText, closeCalls, setCalls, lastOpen, acc, parked>>

\* The other session runs next.
Switch ==
    /\ parked' = Running
    /\ source' = parked.source
    /\ phase' = parked.phase
    /\ line' = parked.line
    /\ block' = parked.block
    /\ doc' = parked.doc
    /\ anchorLines' = parked.anchorLines
    /\ anchorKids' = parked.anchorKids
    /\ slot' = Stored(parked)
    /\ rawText' = parked.rawText
    /\ closeCalls' = parked.closeCalls
    /\ setCalls' = parked.setCalls
    /\ lastOpen' = parked.lastOpen
    /\ acc' = parked.acc
    /\ UNCHANGED table

TwoNext ==
    \/ ConvertSession
    \/ SkipBlankLine
    \/ OpenBlock
    \/ OtherBlock
    \/ ContinueBlock
    \/ CloseBlock
    \/ EndOfBlocks
    \/ RunTransform
    \/ NoTransform
    \/ Access
    \/ Switch

TwoSessions == Init /\ [][TwoNext]_vars

----------------------------------------------------------------------------
(* Notions of the specification, stated without the code's operators *)

\* A delimiter line: trimmed of whitespace it is non-empty and all dashes.
DelimiterLine(l) ==
    /\ \E i \in 1..Len(l) : l[i] = "-"
    /\ \A i \in 1..Len(l) : l[i] = "-" \/ l[i] \in {" ", "\n"}
    /\ \A i, k \in 1..Len(l) :
          (l[i] = "-" /\ l[k] = "-") => \A j \in i..k : l[j] = "-"

StartsWithDelimiter == source # <<>> /\ DelimiterLine(source[1])

\* The first line after line 0 that is a delimiter line, or the end of input.
ClosingLine ==
    IF \E j \in 2..Len(source) : DelimiterLine(source[j])
    THEN CHOOSE j \in 2..Len(source) :
            DelimiterLine(source[j]) /\ \A k \in 2..(j - 1) : ~DelimiterLine(source[k])
    ELSE Len(source) + 1

Unterminated == StartsWithDelimiter /\ ClosingLine = Len(source) + 1

BodyIndices == [i \in 1..(ClosingLine - 2) |-> i + 1]

RECURSIVE ConcatLines(_, _)
ConcatLines(i, j) ==
    IF i > j THEN <<>> ELSE source[i] \o ConcatLines(i + 1, j)

BodyText == ConcatLines(2, ClosingLine - 1)

AnchorInDoc == \E i \in 1..Len(doc) : doc[i].type = TextBlock

TablesInDoc == {i \in 1..Len(doc) : doc[i].type = "Table"}

AllAbsent ==
    [Get |-> Nil, TryGet |-> <<Nil, Nil>>, GetItems |-> Nil,
     TryGetItems |-> <<Nil, Nil>>]

\* Either of the two deserializer calls failed on the text Close handed over.
Failed ==
    UnmarshalMap(rawText[1]).err # Nil \/ UnmarshalNode(rawText[1]).err # Nil

----------------------------------------------------------------------------
(* Claims *)

\* C1: Open returns a block only when the reader's line number is 0 and the
\* peeked line is a delimiter line; every call of Open at another line number
\* returns no block whatever the line, and while the source does not start
\* with a delimiter line at line 0 the session slot stays absent.
C1_OpenOnlyAtLineZero ==
    /\ lastOpen # Nil =>
          /\ lastOpen[1].node # Nil =>
                lastOpen[1].linenum = 0 /\ DelimiterLine(lastOpen[1].line)
          /\ lastOpen[1].linenum # 0 => lastOpen[1].node = Nil
    /\ ~StartsWithDelimiter => slot = Nil /\ ~AnchorInDoc

\* Open was called on a delimiter line after line 0 and returned no block.
C1_Witness ==
    /\ phase = "done"
    /\ lastOpen # Nil
    /\ lastOpen[1].linenum # 0
    /\ DelimiterLine(lastOpen[1].line)
    /\ lastOpen[1].node = Nil
    /\ slot = Nil

\* C2: for a document whose first line is not a delimiter line no block is
\* opened, Close is never called, and after the parse Get and GetItems return
\* nil and TryGet and TryGetItems return nil with a nil error.
C2_NoDelimiterNoMetadata ==
    ~StartsWithDelimiter =>
        /\ block = "none"
        /\ closeCalls = 0
        /\ phase = "done" =>
              /\ Get(slot) = Nil
              /\ GetItems(slot) = Nil
              /\ TryGet(slot) = <<Nil, Nil>>
              /\ TryGetItems(slot) = <<Nil, Nil>>
        /\ acc # Nil => acc[1] = AllAbsent

\* A whole parse of a document with a delimiter line and a block body after
\* a first line that is not one, read by the accessors.
C2_Witness ==
    /\ phase = "done"
    /\ Len(source) >= 3
    /\ ~DelimiterLine(source[1])
    /\ DelimiterLine(source[2])
    /\ acc # Nil

\* C3: when Close has run, the raw text handed to the deserializer is the
\* concatenation, in order, of exactly the lines after the opening delimiter
\* line and before the first later delimiter line (or the end of input);
\* blank lines inside are kept and do not close the block, and the block's
\* lines do not change after the close.
C3_RawTextIsBody ==
    closeCalls > 0 =>
        /\ rawText = Some(BodyText)
        /\ anchorLines = BodyIndices

\* A block closed by a delimiter line with a blank line in its body.
C3_Witness ==
    /\ phase = "done"
    /\ closeCalls = 1
    /\ ClosingLine = 3
    /\ Len(source) = 3
    /\ IsBlank(source[2])
    /\ rawText = Some(source[2])

\* C4: after Close a stored Error excludes a stored Map and stored Items, so
\* Get and GetItems return nil whenever deserialization failed, whichever of
\* the two deserializer calls failed; the Node is stored in either case.
C4_ErrorExcludesResult ==
    slot # Nil =>
        /\ slot[1].Node = TextBlock
        /\ slot[1].Error # Nil =>
              /\ slot[1].Map = Nil
              /\ slot[1].Items = Nil
              /\ Get(slot) = Nil
              /\ GetItems(slot) = Nil

\* C5: TryGet and TryGetItems return (nil, nil) when no block was closed,
\* (nil, the captured error) when a block was closed and deserialization
\* failed, and (the stored mapping / node tree, nil) when it succeeded;
\* never a value together with an error.
C5_TryGetOutcomes ==
    LET g == TryGet(slot)
        t == TryGetItems(slot)
    IN  /\ closeCalls = 0 => g = <<Nil, Nil>> /\ t = <<Nil, Nil>>
        /\ (closeCalls > 0 /\ Failed) =>
              /\ g[1] = Nil /\ t[1] = Nil
              /\ g[2] # Nil /\ t[2] = g[2]
              /\ g[2] \in {UnmarshalMap(rawText[1]).err, UnmarshalNode(rawText[1]).err}
        /\ (closeCalls > 0 /\ ~Failed) =>
              /\ g = <<UnmarshalMap(rawText[1]).val, Nil>>
              /\ t = <<UnmarshalNode(rawText[1]).val, Nil>>
              /\ g[1] # Nil /\ t[1] # Nil
        /\ ~(g[1] # Nil /\ g[2] # Nil)
        /\ ~(t[1] # Nil /\ t[2] # Nil)
        /\ acc # Nil =>
              /\ ~(acc[1].TryGet[1] # Nil /\ acc[1].TryGet[2] # Nil)
              /\ ~(acc[1].TryGetItems[1] # Nil /\ acc[1].TryGetItems[2] # Nil)

\* The accessors were called after a close on which only the map call failed.
C5_Witness ==
    /\ closeCalls = 1
    /\ UnmarshalMap(rawText[1]).err # Nil
    /\ UnmarshalNode(rawText[1]).err = Nil
    /\ acc # Nil
    /\ acc[1].TryGetItems = <<Nil, Some(TypeError)>>

\* C6: Close removes the block's node from its parent exactly when no
\* error was captured: after a successful close the node is not in the
\* document tree, after a failed close the node with its raw lines still is.
C6_RemovedIffNoError ==
    closeCalls > 0 =>
        /\ slot # Nil
        /\ slot[1].Error = Nil <=> ~AnchorInDoc
        /\ slot[1].Error # Nil => AnchorInDoc /\ anchorLines = BodyIndices

\* A block with content was closed without error and left the tree.
C6_Witness ==
    /\ closeCalls = 1
    /\ slot[1].Error = Nil
    /\ slot[1].Map # Nil /\ slot[1].Map # Some({})
    /\ ~AnchorInDoc
    /\ anchorLines # <<>>

\* C7: a block still open at the end of the input is closed: the only step
\* of the parse from there is Close, it runs once on the lines accumulated
\* so far, and after the block phase the slot holds the result or the
\* deserializer's error, and no other error.
C7_UnterminatedIsClosed ==
    /\ [](/\ closeCalls <= 1
          /\ (Unterminated /\ block = "open" /\ line = Len(source)) =>
                phase = "blocks" /\ closeCalls = 0
          /\ (Unterminated /\ phase \in {"transform", "done"}) =>
                /\ block = "closed"
                /\ closeCalls = 1
                /\ rawText = Some(BodyText)
                /\ slot # Nil
                /\ slot[1].Error # Nil <=> Failed
                /\ ~Failed => /\ slot[1].Map = UnmarshalMap(BodyText).val
                              /\ slot[1].Items = UnmarshalNode(BodyText).val)
    /\ [][(Unterminated /\ block = "open" /\ line = Len(source)) =>
            \/ /\ block' = "closed"
               /\ closeCalls' = 1
               /\ rawText' = Some(BodyText)
               /\ slot' # Nil
            \/ UNCHANGED <<phase, line, block, doc, anchorLines, slot>>]_vars

\* An unterminated block with content has been closed at the end of input.
C7_Witness ==
    /\ Unterminated
    /\ Len(source) > 1
    /\ phase = "done"
    /\ block = "closed"
    /\ closeCalls = 1
    /\ slot # Nil

\* C8: the store is written at most once in a session, and once exactly
\* when a block was opened; the write happens at block close, during the
\* block phase, and nothing later changes the stored data.
C8_WrittenOnce ==
    /\ [](/\ setCalls <= 1
          /\ setCalls = 1 <=> slot # Nil
          /\ setCalls = closeCalls
          /\ phase # "blocks" => (setCalls = 1 <=> block # "none"))
    /\ [][slot # Nil => slot' = slot]_vars
    /\ [][setCalls' # setCalls => phase = "blocks" /\ phase' = "blocks"]_vars

\* The store was written, and Transform and the accessors ran after it.
C8_Witness ==
    /\ phase = "done"
    /\ table
    /\ setCalls = 1
    /\ slot[1].Error # Nil
    /\ anchorKids # <<>>
    /\ acc # Nil
    /\ acc[1].TryGet[2] # Nil

\* C9: with the rewriter enabled and a capture error stored, Transform
\* appends exactly one code-flagged string with the error message as the
\* last child of the block's node, inserts no table and changes nothing else.
C9_ErrorMarker ==
    /\ []((phase = "done" /\ table /\ slot # Nil /\ slot[1].Error # Nil) =>
            /\ anchorKids = <<[type  |-> "String", code |-> TRUE,
                               value |-> "<!-- " \o slot[1].Error[1] \o " -->"]>>
            /\ AnchorInDoc
            /\ TablesInDoc = {})
    /\ [][(phase = "transform" /\ phase' # "transform" /\ table
                /\ slot # Nil /\ slot[1].Error # Nil) =>
            /\ doc' = doc
            /\ Len(anchorKids') = Len(anchorKids) + 1
            /\ SubSeq(anchorKids', 1, Len(anchorKids)) = anchorKids
            /\ anchorLines' = anchorLines
            /\ slot' = slot]_vars

\* Transform ran on a failed block that has raw lines.
C9_Witness ==
    /\ phase = "done"
    /\ table
    /\ slot # Nil
    /\ slot[1].Error = Some(SyntaxError)
    /\ anchorLines # <<>>
    /\ Len(anchorKids) = 1

\* The root of a stored node tree: the child of a document node.
RootOf(items) ==
    IF items.Kind = "Document" /\ items.Content # <<>> THEN items.Content[1]
    ELSE items

\* C10: with the rewriter enabled and a stored node tree whose root is a
\* mapping with n key/value pairs, Transform inserts exactly one table as
\* the first child of the document root, with a header row and a body row of
\* n cells: the i-th header cell the i-th key, the i-th body cell the
\* stringified i-th value.
C10_TableFromMapping ==
    (/\ phase = "done"
     /\ table
     /\ slot # Nil
     /\ slot[1].Items # Nil
     /\ RootOf(slot[1].Items[1]).Kind = "Mapping") =>
        LET root == RootOf(slot[1].Items[1])
            n    == Len(root.Content) \div 2
        IN  /\ TablesInDoc = {1}
            /\ Len(doc[1].header) = n
            /\ Len(doc[1].body) = n
            /\ \A i \in 1..n :
                  /\ doc[1].header[i] = root.Content[2 * i - 1].Value
                  /\ doc[1].body[i] = valueNodeToString(root.Content[2 * i])

\* C11: the rewriter is off by default: with Meta or New() without
\* WithTable, Transform is not registered, so no table is inserted and no
\* error marker appended, while the store is still populated and the block
\* is still removed from the tree on success; only New(WithTable()) enables it.
C11_RewriterOffByDefault ==
    /\ ~Meta.Table /\ ~New(<<>>).Table /\ New(<<WithTable>>).Table
    /\ ~table => TablesInDoc = {} /\ anchorKids = <<>>
    /\ (~table /\ StartsWithDelimiter /\ phase = "done") =>
          /\ slot # Nil
          /\ slot[1].Error = Nil => ~AnchorInDoc
          /\ slot[1].Error = Nil => slot[1].Map # Nil /\ slot[1].Items # Nil

\* A parse without the table option ended with a mapping stored and the
\* block removed, and no table in the document.
C11_Witness ==
    /\ phase = "done"
    /\ ~table
    /\ slot # Nil
    /\ slot[1].Error = Nil
    /\ slot[1].Map # Some({})
    /\ ~AnchorInDoc
    /\ TablesInDoc = {}

\* The block of the source has no content: every line of its body is blank.
EmptyBody == \A i \in 1..Len(BodyIndices) : IsBlank(source[BodyIndices[i]])

\* C13: a closed empty block is distinguishable from no block: with the
\* slot absent every accessor returns absent, and after a block without
\* content was closed the accessors return a present empty mapping and a
\* present node tree with a nil error.
C13_EmptyBlockIsNotAbsent ==
    /\ slot = Nil =>
          /\ Get(slot) = Nil /\ GetItems(slot) = Nil
          /\ TryGet(slot) = <<Nil, Nil>> /\ TryGetItems(slot) = <<Nil, Nil>>
    /\ (closeCalls > 0 /\ EmptyBody) =>
          /\ Get(slot) = Some({})
          /\ TryGet(slot) = <<Some({}), Nil>>
          /\ GetItems(slot) # Nil
          /\ TryGetItems(slot) = <<GetItems(slot), Nil>>
          /\ Get(slot) # Get(Nil) /\ GetItems(slot) # GetItems(Nil)
          /\ TryGet(slot) # TryGet(Nil) /\ TryGetItems(slot) # TryGetItems(Nil)
    /\ (acc # Nil /\ acc[1].Get = Some({})) => closeCalls > 0

\* The accessors were called after a block of no lines was closed by a
\* delimiter line.
C13_Witness ==
    /\ closeCalls = 1
    /\ Len(source) >= 2
    /\ ClosingLine = 2
    /\ rawText = Some(<<>>)
    /\ acc # Nil
    /\ acc[1].Get = Some({})
    /\ acc[1].TryGetItems[1] # Nil

\* Continue is about to test the peeked line of the open block.
ContinueTests == phase = "blocks" /\ block = "open" /\ line < Len(source)

\* C15 as stated: isSeparator(line) is true exactly when the trimmed line is
\* non-empty and all dashes, and false for an empty or whitespace-only line.
C15_SeparatorIffDelimiter ==
    ContinueTests => (isSeparator(Peek) <=> DelimiterLine(Peek))

\* A line of no character other than whitespace, the empty line included.
WhitespaceOnly(l) == \A i \in 1..Len(l) : l[i] \in {" ", "\n"}

\* C15, amended: isSeparator(line) is true exactly when no character other
\* than a dash is left after trimming, so it is true of an empty or
\* whitespace-only line as well as of a delimiter line; Continue closes the
\* block exactly on a delimiter line, by its own test that the line is not
\* blank.
C15_SeparatorIffNoOtherCharacter ==
    ContinueTests =>
        /\ isSeparator(Peek) <=> (WhitespaceOnly(Peek) \/ DelimiterLine(Peek))
        /\ WhitespaceOnly(Peek) => ~DelimiterLine(Peek)
        /\ Continue(Peek) = "Close" <=> DelimiterLine(Peek)

\* Continue tests a whitespace-only line inside the open block.
C15_Witness ==
    /\ ContinueTests
    /\ Peek = BlankLine
    /\ isSeparator(Peek)

\* C18: with the rewriter enabled and a closed block whose top-level value
\* is not a key/value mapping (a sequence, or an empty block), Transform is
\* a no-op: no table inserted, no marker appended.
C18_NonMappingIsNoOp ==
    (/\ phase = "done"
     /\ table
     /\ closeCalls > 0
     /\ UnmarshalNode(rawText[1]).err = Nil
     /\ RootOf(UnmarshalNode(rawText[1]).val[1]).Kind # "Mapping") =>
        /\ TablesInDoc = {}
        /\ anchorKids = <<>>

StoredRoot == RootOf(slot[1].Items[1])

Rendered ==
    /\ phase = "done"
    /\ slot # Nil
    /\ slot[1].Error = Nil
    /\ slot[1].Items # Nil
    /\ StoredRoot.Kind = "Mapping"
    /\ TablesInDoc # {}

\* Strings separated by single spaces, in their order.
RECURSIVE Spaced(_)
Spaced(ss) ==
    IF Len(ss) = 0 THEN <<>>
    ELSE IF Len(ss) = 1 THEN ss[1]
    ELSE Spaced(SubSeq(ss, 1, Len(ss) - 1)) \o <<" ">> \o ss[Len(ss)]

\* A mapping node of an even number of children, as valueNodeToString sees it.
EvenMapping(v) == v.Kind = "Mapping" /\ Len(v.Content) % 2 = 0

PairText(v, i) ==
    valueNodeToString(v.Content[2 * i - 1]) \o <<":">>
        \o valueNodeToString(v.Content[2 * i])

\* The pairs of a mapping in the reverse of their declaration order.
ReverseDeclared(v) ==
    LET n == Len(v.Content) \div 2
    IN  <<"m", "a", "p", "[">>
            \o Spaced([i \in 1..n |-> PairText(v, n + 1 - i)])
            \o <<"]">>

\* One pair per distinct key, the first declared of that key, the pairs in
\* ascending byte order of their keys.
SortedFirstDeclared(v) ==
    LET n    == Len(v.Content) \div 2
        K(i) == valueNodeToString(v.Content[2 * i - 1])
        p    == CHOOSE q \in UNION {[1..m -> 1..n] : m \in 0..n} :
                    /\ \A i \in 1..n : \E j \in 1..Len(q) : K(q[j]) = K(i)
                    /\ \A j \in 1..Len(q) : \A i \in 1..(q[j] - 1) : K(i) # K(q[j])
                    /\ \A j \in 1..(Len(q) - 1) : StrLess(K(q[j]), K(q[j + 1]))
    IN  <<"m", "a", "p", "[">>
            \o Spaced([j \in 1..Len(p) |-> PairText(v, p[j])])
            \o <<"]">>

\* C16 as stated: valueNodeToString renders a mapping node of an even
\* number of children as map[k1:v1 k2:v2 ...] with the pairs in the reverse
\* of their declaration order.
C16_MappingInReverseDeclarationOrder ==
    Rendered =>
        \A i \in 1..Len(doc[1].body) :
            EvenMapping(StoredRoot.Content[2 * i]) =>
                doc[1].body[i] = ReverseDeclared(StoredRoot.Content[2 * i])

\* C16, amended: valueNodeToString renders a mapping node of an even number
\* of children as map[k1:v1 k2:v2 ...] with one pair per distinct key, the
\* pairs in ascending byte order of their stringified keys, and for a key
\* declared more than once the value of its first declaration.
C16_MappingSortedByKey ==
    Rendered =>
        \A i \in 1..Len(doc[1].body) :
            EvenMapping(StoredRoot.Content[2 * i]) =>
                doc[1].body[i] = SortedFirstDeclared(StoredRoot.Content[2 * i])

\* A mapping of two pairs declared in ascending key order was rendered.
C16_Witness ==
    /\ Rendered
    /\ EvenMapping(StoredRoot.Content[2])
    /\ Len(StoredRoot.Content[2].Content) = 4
    /\ StoredRoot.Content[2].Content[1] = ScalarNode(<<"a">>)
    /\ StoredRoot.Content[2].Content[3] = ScalarNode(<<"b">>)
    /\ doc[1].body[1] = <<"m", "a", "p", "[", "a", ":", "b", " ", "b", ":", "a", "]">>

\* What C17 says of a node that is not a mapping of an even number of
\* children.
Stringified(v) ==
    CASE v.Kind = "Scalar" -> v.Value
      [] v.Kind = "Sequence" ->
            <<"[">> \o Spaced([j \in 1..Len(v.Content) |->
                                  valueNodeToString(v.Content[j])])
                    \o <<"]">>
      [] v.Kind = "Mapping" ->
            <<"<", "b", "r", "o", "k", "e", "n", " ", "m", "a", "p", "p",
              "i", "n", "g", " ", "n", "o", "d", "e", ">">>
      [] OTHER -> Unsupported(v.Kind)

\* C17: valueNodeToString renders a scalar node as its literal value, a
\* sequence node as [e1 e2 ... en], the stringified elements separated by
\* single spaces in their order, a mapping node of an odd number of children
\* as <broken mapping node>, and a node of any other kind as a placeholder
\* naming the kind.
C17_ScalarSequencePlaceholder ==
    Rendered =>
        /\ \A i \in 1..Len(doc[1].header) :
              StoredRoot.Content[2 * i - 1].Kind = "Scalar" =>
                  doc[1].header[i] = StoredRoot.Content[2 * i - 1].Value
        /\ \A i \in 1..Len(doc[1].body) :
              ~EvenMapping(StoredRoot.Content[2 * i]) =>
                  doc[1].body[i] = Stringified(StoredRoot.Content[2 * i])

\* A sequence of a scalar, a nested sequence and another scalar was rendered.
C17_Witness ==
    /\ Rendered
    /\ StoredRoot.Content[2].Kind = "Sequence"
    /\ Len(StoredRoot.Content[2].Content) = 3
    /\ StoredRoot.Content[2].Content[2].Kind = "Sequence"
    /\ doc[1].body[1] = <<"[", "b", " ", "[", "a", "]", " ", "a", "]">>

\* The text between the opening delimiter of a document and its closing
\* delimiter or end.
RECURSIVE BodyOf(_, _)
BodyOf(src, i) ==
    IF i > Len(src) \/ DelimiterLine(src[i]) THEN <<>>
    ELSE src[i] \o BodyOf(src, i + 1)

\* What a document alone determines of its session's store.
OwnStore(src) ==
    IF src # <<>> /\ DelimiterLine(src[1])
    THEN Some(NewData(BodyOf(src, 2), TextBlock))
    ELSE Nil

\* A session holds nothing that its own document does not determine.
OwnResults(s) ==
    /\ s.slot \in {Nil, OwnStore(s.source)}
    /\ s.phase \in {"transform", "done"} => s.slot = OwnStore(s.source)
    /\ s.acc # Nil =>
          \E c \in {Nil, OwnStore(s.source)} :
             s.acc[1] = [Get |-> Get(c), TryGet |-> TryGet(c),
                         GetItems |-> GetItems(c),
                         TryGetItems |-> TryGetItems(c)]
    /\ s.phase = "done" =>
          /\ s.anchorKids =
                Transform(<<>>, <<>>,
                          IF table THEN OwnStore(s.source) ELSE Nil).kids
          /\ \A i \in 1..Len(s.doc) :
                s.doc[i].type = "Table" =>
                    <<s.doc[i]>> = Transform(<<>>, <<>>, OwnStore(s.source)).doc

\* C14: sessions are isolated: with two documents parsed with two contexts
\* in any interleaving of their steps through the shared parser and
\* transformer, each session's store, accessor results and tree depend on
\* its own document only, and a step of one session leaves the state of
\* the other as it was.
C14_SessionsIsolated ==
    /\ [](OwnResults(Running) /\ OwnResults(parked))
    /\ [][parked' = parked \/ (parked' = Running /\ Running' = parked)]_vars

\* The running session has finished a document with metadata while the
\* other session, on another document, is inside its block.
C14_Witness ==
    /\ phase = "done"
    /\ slot # Nil
    /\ slot[1].Error = Nil
    /\ acc # Nil
    /\ parked.phase = "blocks"
    /\ parked.block = "open"
    /\ parked.source # source
    /\ parked.slot = Nil
    /\ parked.anchorLines # <<>>

====
